---- MODULE Spec2Model ----
(***************************************************************************)
(* WeightingFunctionsProcessor (src/ogc/weighting_functions.py): a pygeoapi *)
(* processor that loads a JSON configuration, creates an output directory, *)
(* validates three inputs, runs one docker container and returns two       *)
(* download links or raises.                                               *)
(*                                                                         *)
(* Python strings that the code concatenates, strips or embeds are         *)
(* sequences of one-character strings, so that f-strings, rstrip('/') and  *)
(* '%s' formatting are computed and not assumed.  An optional value        *)
(* (None / attribute not yet set) is <<>>, a present value v is <<v>>.      *)
(***************************************************************************)
EXTENDS Integers, Sequences, FiniteSets, TLC

VARIABLES
    config_file,        \* the file named by AQUAINFRA_CONFIG_FILE
    dirs,               \* filesystem: the directories that exist
    files,              \* filesystem: the regular files that exist
    my_job_id,          \* self.my_job_id of each processor instance
    docker_executable,  \* self.docker_executable (<<>> until first assigned)
    download_dir,       \* self.download_dir
    download_url,       \* self.download_url
    pc,                 \* "idle", or "running" while execute waits for the container
    call,               \* the local variables of the current (or last) execute call
    trace,              \* the steps the current (or last) execute call has performed
    invoked,            \* the run_docker_container calls of that execute call
    ret,                \* what run_docker_container returned to that call
    produced,           \* the files the container of that call wrote
    outcome,            \* how that execute call ended
    nexec,              \* number of execute calls started so far
    due,                \* caller: the jobs that assigned their id and await execute
    served              \* caller: the job the current (or last) execute call is for

vars == <<config_file, dirs, files, my_job_id, docker_executable, download_dir,
          download_url, pc, call, trace, invoked, ret, produced, outcome, nexec,
          due, served>>

\* Bound: execute calls started in one behaviour (over all instances).
MaxExecutes == 2

\* The processor instances the framework has constructed.
Procs == {"p1", "p2"}

-----------------------------------------------------------------------------
(* String literals of the source *)

\* 'nothing-yet'
Sentinel == <<"n","o","t","h","i","n","g","-","y","e","t">>

\* self.metadata["id"], read from the sidecar JSON
process_id == <<"w","f">>

image_name == "aquainfra-elbe-usecase-image:20251201"

script_name == "weighting_functions.R"

Slash == <<"/">>

\* s.rstrip('/'): drop every trailing '/'
RECURSIVE RStrip(_)
RStrip(s) ==
    IF Len(s) > 0 /\ s[Len(s)] = "/" THEN RStrip(SubSeq(s, 1, Len(s) - 1)) ELSE s

\* Mutants of OutputDir: a directory shared by all jobs; the directory of the
\* constructor's job id.
OutputDir_nojob(base, pid, job_id) ==
    base \o <<"/","o","u","t","/">> \o pid \o <<"/","j","o","b">>

OutputDir_sentinel(base, pid, job_id) ==
    base \o <<"/","o","u","t","/">> \o pid \o <<"/","j","o","b","_">> \o Sentinel

\* f'{download_dir}/out/{process_id}/job_{my_job_id}' (the same shape for the URL)
OutputDir(base, pid, job_id) ==
    base \o <<"/","o","u","t","/">> \o pid \o <<"/","j","o","b","_">> \o job_id

\* 'weight_table-%s.csv' % self.my_job_id
DownloadFileName1(job_id) ==
    <<"w","e","i","g","h","t","_","t","a","b","l","e","-">> \o job_id \o <<".","c","s","v">>

\* 'weight_table-%s.rds' % self.my_job_id
DownloadFileName2(job_id) ==
    <<"w","e","i","g","h","t","_","t","a","b","l","e","-">> \o job_id \o <<".","r","d","s">>

\* f'{output_dir}/{downloadfilename}'
JoinPath(dir, name) == dir \o Slash \o name

-----------------------------------------------------------------------------
(* Python values: None is <<>>, the str object s is <<s>> *)

None == <<>>

Str(s) == <<s>>

-----------------------------------------------------------------------------
(* The configuration file and the job requests the model draws from *)

ConfigKeys == {"docker_executable", "download_dir", "download_url"}

\* A configuration file: unreadable (missing or not JSON), or a JSON object
\* that holds each key (Str) or lacks it (None).
GoodConfig ==
    [readable |-> TRUE,
     docker_executable |-> Str(<<"d","o","c","k","e","r">>),
     download_dir |-> Str(<<"/","d","a","t","a">>),
     download_url |-> Str(<<"h","t","t","p","s",":","/","/","x","/","f","i","l","e","s">>)]

SlashedConfig ==
    [GoodConfig EXCEPT
        !.download_dir = Str(<<"/","d","a","t","a","/">>),
        !.download_url = Str(<<"h","t","t","p","s",":","/","/","x","/","f","i","l","e","s","/","/">>)]

NoUrlConfig == [GoodConfig EXCEPT !.download_url = None]

UnreadableConfig ==
    [readable |-> FALSE, docker_executable |-> None, download_dir |-> None,
     download_url |-> None]

ConfigFiles == {GoodConfig, SlashedConfig, NoUrlConfig, UnreadableConfig}

Fields == {"inputFile1_tif", "inputFile2_gpkg", "inputFile3_dbf"}

\* What a request may hold under a key: nothing, JSON null, or a string.
Absent == [key |-> "absent", v |-> <<>>]

Null == [key |-> "null", v |-> <<>>]

Value(s) == [key |-> "value", v |-> s]

FieldValue(f) ==
    CASE f = "inputFile1_tif" -> <<"a",".","t","i","f">>
      [] f = "inputFile2_gpkg" -> <<"b",".","g","p","k","g">>
      [] f = "inputFile3_dbf" -> <<"c",".","d","b","f">>

Requests ==
    { d \in [Fields -> {Absent, Null} \cup {Value(FieldValue(f)) : f \in Fields}] :
        \A f \in Fields : d[f].key = "value" => d[f].v = FieldValue(f) }

FullRequest == [f \in Fields |-> Value(FieldValue(f))]

\* Job identifiers the framework may assign: two plain ones and one that
\* holds a path separator.
PlainIds == {<<"4","2">>, <<"7">>}

NestedId(a) == a \o Slash \o DownloadFileName1(a)

JobIds == PlainIds \cup {NestedId(<<"4","2">>)}

ReturnCodes == {0, 1}

UserMsgs == {<<>>, <<"e","x","i","t"," ","1">>}

-----------------------------------------------------------------------------
(* execute, lines 33-38: load the configuration *)

\* The three assignments run in order; a missing key raises KeyError after
\* the earlier assignments are done.  de, dd, du are the old attribute values.
\* Every failure here (FileNotFoundError, JSONDecodeError, KeyError) is the
\* outcome "ConfigError"; a failure of os.makedirs (FileExistsError,
\* NotADirectoryError) is the outcome "OSError".
LoadConfig(cf, de, dd, du) ==
    IF ~cf.readable \/ cf.docker_executable = None
    THEN [ok |-> FALSE, docker_executable |-> de, download_dir |-> dd, download_url |-> du]
    ELSE IF cf.download_dir = None
    THEN [ok |-> FALSE, docker_executable |-> cf.docker_executable,
          download_dir |-> dd, download_url |-> du]
    ELSE IF cf.download_url = None
    THEN [ok |-> FALSE, docker_executable |-> cf.docker_executable,
          download_dir |-> Str(RStrip(cf.download_dir[1])), download_url |-> du]
    ELSE [ok |-> TRUE, docker_executable |-> cf.docker_executable,
          download_dir |-> Str(RStrip(cf.download_dir[1])),
          download_url |-> Str(RStrip(cf.download_url[1]))]

-----------------------------------------------------------------------------
(* execute, line 43: os.makedirs(output_dir, exist_ok=True) *)

\* The path and every leading part of it that ends before a '/'.
Ancestors(path) ==
    { SubSeq(path, 1, k) : k \in { j \in 1..Len(path) :
                                     j = Len(path) \/ path[j + 1] = "/" } }

\* makedirs raises when the path or a leading part of it is a regular file.
MakeDirsFails(fs_files, path) == \E a \in Ancestors(path) : a \in fs_files

\* Mutant of MakeDirs: the directory is not created.
MakeDirs_noop(fs_dirs, fs_files, path) == fs_dirs

\* The directories that exist afterwards: every part up to the first one
\* that is a regular file.
MakeDirs(fs_dirs, fs_files, path) ==
    LET parts == Ancestors(path)
        blocked == parts \cap fs_files
    IN  IF blocked = {}
        THEN fs_dirs \cup parts
        ELSE fs_dirs \cup { a \in parts : \A b \in blocked : Len(a) < Len(b) }

-----------------------------------------------------------------------------
(* execute, lines 46-73: inputs, validation, file names, arguments *)

\* data.get(key)
Get(data, f) == IF data[f].key = "value" THEN Str(data[f].v) ELSE None

MsgMissingTif ==
    <<"M","i","s","s","i","n","g"," ","p","a","r","a","m","e","t","e","r"," ","\"","i","n","p","u","t","F","i","l","e","1","_","t","i","f","\"","."," ","P","l","e","a","s","e"," ","p","r","o","v","i","d","e"," ","a"," ","i","n","p","u","t","F","i","l","e","1","_","t","i","f",".">>

MsgMissingGpkg ==
    <<"M","i","s","s","i","n","g"," ","p","a","r","a","m","e","t","e","r"," ","\"","i","n","p","u","t","F","i","l","e","2","_","g","p","k","g","\"","."," ","P","l","e","a","s","e"," ","p","r","o","v","i","d","e"," ","a"," ","i","n","p","u","t","F","i","l","e","2","_","g","p","k","g",".">>

MsgMissingDbf ==
    <<"M","i","s","s","i","n","g"," ","p","a","r","a","m","e","t","e","r"," ","\"","i","n","p","u","t","F","i","l","e","3","_","d","b","f","\"","."," ","P","l","e","a","s","e"," ","p","r","o","v","i","d","e"," ","a"," ","i","n","p","u","t","F","i","l","e","3","_","d","b","f",".">>

\* Mutants of MissingParameter: the second check raises the third message;
\* the third check is left out.
MissingParameter_wrongmsg(tif, gpkg, dbf) ==
    IF tif = None THEN Str(MsgMissingTif)
    ELSE IF gpkg = None THEN Str(MsgMissingDbf)
    ELSE IF dbf = None THEN Str(MsgMissingDbf)
    ELSE None

MissingParameter_skipdbf(tif, gpkg, dbf) ==
    IF tif = None THEN Str(MsgMissingTif)
    ELSE IF gpkg = None THEN Str(MsgMissingGpkg)
    ELSE None

\* The three checks in order: the message of the first one that fires, or None.
MissingParameter(tif, gpkg, dbf) ==
    IF tif = None THEN Str(MsgMissingTif)
    ELSE IF gpkg = None THEN Str(MsgMissingGpkg)
    ELSE IF dbf = None THEN Str(MsgMissingDbf)
    ELSE None

\* Mutant of ScriptArgs: the two output paths in the wrong order.
ScriptArgs_swapped(tif, gpkg, dbf, downloadfilepath1, downloadfilepath2) ==
    <<tif, gpkg, dbf, Str(downloadfilepath2), Str(downloadfilepath1)>>

ScriptArgs(tif, gpkg, dbf, downloadfilepath1, downloadfilepath2) ==
    <<tif, gpkg, dbf, Str(downloadfilepath1), Str(downloadfilepath2)>>

\* The locals of an execute call; the ones not yet assigned are None.
NoLocals ==
    [job_id |-> None, data |-> None, output_dir |-> None, output_url |-> None,
     downloadfilepath1 |-> None, downloadfilepath2 |-> None,
     downloadlink1 |-> None, downloadlink2 |-> None]

-----------------------------------------------------------------------------
(* execute, lines 84-107: interpret the container's result *)

\* Mutant of ErrMsg: no placeholder for an empty message.
ErrMsg_noplaceholder(user_err_msg) ==
    <<"R","u","n","n","i","n","g"," ","d","o","c","k","e","r"," ","c","o","n","t","a","i","n","e","r"," ","f","a","i","l","e","d",":"," ">>
    \o user_err_msg

ErrMsg(user_err_msg) ==
    <<"R","u","n","n","i","n","g"," ","d","o","c","k","e","r"," ","c","o","n","t","a","i","n","e","r"," ","f","a","i","l","e","d",":"," ">>
    \o (IF Len(user_err_msg) = 0
        THEN <<"n","o"," ","m","e","s","s","a","g","e">>
        ELSE user_err_msg)

\* Mutant of ResponseObject: both outputs link to the csv file.
ResponseObject_samelink(downloadlink1, downloadlink2) ==
    [outputs |->
        [weight_table_csv |->
            [title |-> "outputs.weight_table_csv.title",
             description |-> "outputs.weight_table_csv.description",
             href |-> downloadlink1],
         weight_table_rds |->
            [title |-> "outputs.weight_table_rds.title",
             description |-> "outputs.weight_table_rds.description",
             href |-> downloadlink1]]]

ResponseObject(downloadlink1, downloadlink2) ==
    [outputs |->
        [weight_table_csv |->
            [title |-> "outputs.weight_table_csv.title",
             description |-> "outputs.weight_table_csv.description",
             href |-> downloadlink1],
         weight_table_rds |->
            [title |-> "outputs.weight_table_rds.title",
             description |-> "outputs.weight_table_rds.description",
             href |-> downloadlink2]]]

NoOutcome == [kind |-> "none", exc |-> "", msg |-> <<>>, result |-> None]

Raised(exc, msg) == [kind |-> "raised", exc |-> exc, msg |-> msg, result |-> None]

Returned(mimetype, response) ==
    [kind |-> "returned", exc |-> "", msg |-> <<>>,
     result |-> Str([mimetype |-> mimetype, response |-> response])]

\* Mutant of Interpret: the exit code is not looked at.
Interpret_ignoresexit(returncode, user_err_msg, downloadlink1, downloadlink2) ==
    Returned("application/json", ResponseObject(downloadlink1, downloadlink2))

Interpret(returncode, user_err_msg, downloadlink1, downloadlink2) ==
    IF ~(returncode = 0)
    THEN Raised("ProcessorExecuteError", ErrMsg(user_err_msg))
    ELSE Returned("application/json", ResponseObject(downloadlink1, downloadlink2))

-----------------------------------------------------------------------------
(* State after construction (__init__, lines 18-24) *)

InitProc ==
    /\ my_job_id = [p \in Procs |-> Sentinel]
    /\ docker_executable = [p \in Procs |-> None]
    /\ download_dir = [p \in Procs |-> None]
    /\ download_url = [p \in Procs |-> None]
    /\ pc = [p \in Procs |-> "idle"]
    /\ call = [p \in Procs |-> NoLocals]
    /\ trace = [p \in Procs |-> <<>>]
    /\ invoked = [p \in Procs |-> <<>>]
    /\ ret = [p \in Procs |-> None]
    /\ produced = [p \in Procs |-> {}]
    /\ outcome = [p \in Procs |-> NoOutcome]
    /\ nexec = 0
    /\ due = [p \in Procs |-> {}]
    /\ served = [p \in Procs |-> None]

Init ==
    /\ config_file \in ConfigFiles
    /\ dirs = {}
    /\ files = {}
    /\ InitProc

-----------------------------------------------------------------------------
(* set_job_id, lines 26-27 *)

set_job_id(p, job_id) ==
    /\ my_job_id' = [my_job_id EXCEPT ![p] = job_id]
    /\ UNCHANGED <<config_file, dirs, files, docker_executable, download_dir,
                   download_url, pc, call, trace, invoked, ret, produced, outcome,
                   nexec>>

-----------------------------------------------------------------------------
(* execute, lines 32-82: from the call to the start of the container *)

\* The execute call ends here by raising exc.
Raise(p, exc, msg, steps, locals) ==
    /\ pc' = [pc EXCEPT ![p] = "idle"]
    /\ outcome' = [outcome EXCEPT ![p] = Raised(exc, msg)]
    /\ trace' = [trace EXCEPT ![p] = steps]
    /\ call' = [call EXCEPT ![p] = locals]
    /\ invoked' = [invoked EXCEPT ![p] = <<>>]

\* Mutant of JobIdRead: the job id of the instance's first execute call is kept.
JobIdRead_first(p) ==
    IF call[p].job_id # None THEN call[p].job_id[1] ELSE my_job_id[p]

\* self.my_job_id as execute reads it (lines 41-42, 59-60)
JobIdRead(p) == my_job_id[p]

execute(p, data) ==
    LET cfg == LoadConfig(config_file, docker_executable[p], download_dir[p],
                          download_url[p])
        job_id == JobIdRead(p)
        output_dir == OutputDir(cfg.download_dir[1], process_id, job_id)
        output_url == OutputDir(cfg.download_url[1], process_id, job_id)
        in_inputFile_tif == Get(data, "inputFile1_tif")
        in_inputFile_gpkg == Get(data, "inputFile2_gpkg")
        in_inputFile_dbf == Get(data, "inputFile3_dbf")
        missing == MissingParameter(in_inputFile_tif, in_inputFile_gpkg,
                                    in_inputFile_dbf)
        downloadfilepath1 == JoinPath(output_dir, DownloadFileName1(job_id))
        downloadfilepath2 == JoinPath(output_dir, DownloadFileName2(job_id))
        downloadlink1 == JoinPath(output_url, DownloadFileName1(job_id))
        downloadlink2 == JoinPath(output_url, DownloadFileName2(job_id))
        script_args == ScriptArgs(in_inputFile_tif, in_inputFile_gpkg,
                                  in_inputFile_dbf, downloadfilepath1,
                                  downloadfilepath2)
        atStart == [NoLocals EXCEPT !.job_id = Str(job_id), !.data = Str(data)]
        atDir == [atStart EXCEPT !.output_dir = Str(output_dir),
                                 !.output_url = Str(output_url)]
        atInvoke == [atDir EXCEPT !.downloadfilepath1 = Str(downloadfilepath1),
                                  !.downloadfilepath2 = Str(downloadfilepath2),
                                  !.downloadlink1 = Str(downloadlink1),
                                  !.downloadlink2 = Str(downloadlink2)]
    IN  /\ pc[p] = "idle"
        /\ nexec < MaxExecutes
        /\ nexec' = nexec + 1
        /\ docker_executable' = [docker_executable EXCEPT ![p] = cfg.docker_executable]
        /\ download_dir' = [download_dir EXCEPT ![p] = cfg.download_dir]
        /\ download_url' = [download_url EXCEPT ![p] = cfg.download_url]
        /\ ret' = [ret EXCEPT ![p] = None]
        /\ produced' = [produced EXCEPT ![p] = {}]
        /\ UNCHANGED <<config_file, files, my_job_id>>
        /\ IF ~cfg.ok
           THEN /\ Raise(p, "ConfigError", <<>>, <<"load_config">>, atStart)
                /\ dirs' = dirs
           ELSE IF MakeDirsFails(files, output_dir)
           THEN /\ Raise(p, "OSError", <<>>, <<"load_config", "makedirs">>,
                         atDir)
                /\ dirs' = MakeDirs(dirs, files, output_dir)
           ELSE IF missing # None
           THEN /\ Raise(p, "ProcessorExecuteError", missing[1],
                         <<"load_config", "makedirs", "validate">>, atDir)
                /\ dirs' = MakeDirs(dirs, files, output_dir)
           ELSE /\ dirs' = MakeDirs(dirs, files, output_dir)
                /\ pc' = [pc EXCEPT ![p] = "running"]
                /\ outcome' = [outcome EXCEPT ![p] = NoOutcome]
                /\ trace' = [trace EXCEPT ![p] =
                                <<"load_config", "makedirs", "validate", "invoke">>]
                /\ call' = [call EXCEPT ![p] = atInvoke]
                /\ invoked' = [invoked EXCEPT ![p] =
                                <<[docker_executable |-> cfg.docker_executable[1],
                                   image_name |-> image_name,
                                   script_name |-> script_name,
                                   output_dir |-> output_dir,
                                   script_args |-> script_args]>>]

-----------------------------------------------------------------------------
(* docker_utils.run_docker_container returns; execute, lines 84-107 *)

\* What the container may have written: any of the two output paths it was
\* given that is not a directory.
Writable(p) ==
    IF pc[p] = "running"
    THEN { f \in {call[p].downloadfilepath1[1], call[p].downloadfilepath2[1]} :
             f \notin dirs }
    ELSE {}

run_docker_container(p, returncode, user_err_msg, written) ==
    /\ pc[p] = "running"
    /\ written \subseteq Writable(p)
    /\ files' = files \cup written
    /\ produced' = [produced EXCEPT ![p] = written]
    /\ ret' = [ret EXCEPT ![p] =
                 Str([returncode |-> returncode, user_err_msg |-> user_err_msg])]
    /\ outcome' = [outcome EXCEPT ![p] =
                     Interpret(returncode, user_err_msg, call[p].downloadlink1[1],
                               call[p].downloadlink2[1])]
    /\ trace' = [trace EXCEPT ![p] = Append(@, "interpret")]
    /\ pc' = [pc EXCEPT ![p] = "idle"]
    /\ UNCHANGED <<config_file, dirs, my_job_id, docker_executable, download_dir,
                   download_url, call, invoked, nexec>>

-----------------------------------------------------------------------------
(* Specifications *)

\* One processor instance, every request and every job id.
Next ==
    \/ \E job_id \in JobIds :
          set_job_id("p1", job_id) /\ UNCHANGED <<due, served>>
    \/ \E data \in Requests :
          execute("p1", data) /\ UNCHANGED <<due, served>>
    \/ \E returncode \in ReturnCodes, user_err_msg \in UserMsgs,
          written \in SUBSET Writable("p1") :
            /\ run_docker_container("p1", returncode, user_err_msg, written)
            /\ UNCHANGED <<due, served>>

Spec == Init /\ [][Next]_vars

\* One processor instance per job, running concurrently on one filesystem with
\* one readable configuration; every request is well-formed.
InitJobs ==
    /\ config_file = SlashedConfig
    /\ dirs = {}
    /\ files = {}
    /\ InitProc

NextJobs ==
    \/ \E p \in Procs, job_id \in JobIds :
          set_job_id(p, job_id) /\ UNCHANGED <<due, served>>
    \/ \E p \in Procs :
          execute(p, FullRequest) /\ UNCHANGED <<due, served>>
    \/ \E p \in Procs, returncode \in ReturnCodes :
          \E written \in SUBSET Writable(p) :
            /\ run_docker_container(p, returncode, <<>>, written)
            /\ UNCHANGED <<due, served>>

SpecJobs == InitJobs /\ [][NextJobs]_vars

\* One processor instance that a caller uses for several jobs: for each job it
\* calls set_job_id with the job's id and later execute with the job's request;
\* the calls of different jobs may interleave.
NextReuse ==
    \/ \E job \in JobIds \ due["p1"] :
          /\ set_job_id("p1", job)
          /\ due' = [due EXCEPT !["p1"] = @ \cup {job}]
          /\ UNCHANGED served
    \/ \E job \in due["p1"], data \in {FullRequest, [FullRequest EXCEPT !["inputFile3_dbf"] = Null]} :
          /\ execute("p1", data)
          /\ due' = [due EXCEPT !["p1"] = @ \ {job}]
          /\ served' = [served EXCEPT !["p1"] = Str(job)]
    \/ \E returncode \in ReturnCodes, written \in SUBSET Writable("p1") :
          /\ run_docker_container("p1", returncode, <<>>, written)
          /\ UNCHANGED <<due, served>>

SpecReuse == InitJobs /\ [][NextReuse]_vars

-----------------------------------------------------------------------------
(* Vocabulary of the properties *)

Contains(s, sub) ==
    \E i \in 0..(Len(s) - Len(sub)) : SubSeq(s, i + 1, i + Len(sub)) = sub

StartsWith(s, pre) == Len(pre) <= Len(s) /\ SubSeq(s, 1, Len(pre)) = pre

\* s without its trailing '/' characters
StripSlashes(s) ==
    LET keep == { k \in 0..Len(s) : \A j \in (k + 1)..Len(s) : s[j] = "/" }
    IN  SubSeq(s, 1, CHOOSE k \in keep : \A m \in keep : k <= m)

FieldName(f) ==
    CASE f = "inputFile1_tif" -> <<"i","n","p","u","t","F","i","l","e","1","_","t","i","f">>
      [] f = "inputFile2_gpkg" -> <<"i","n","p","u","t","F","i","l","e","2","_","g","p","k","g">>
      [] f = "inputFile3_dbf" -> <<"i","n","p","u","t","F","i","l","e","3","_","d","b","f">>

FieldOrder == <<"inputFile1_tif", "inputFile2_gpkg", "inputFile3_dbf">>

IsMissing(data, f) == data[f].key # "value"

\* The message names field f and no other field.
NamesExactly(msg, f) ==
    \A g \in Fields : Contains(msg, FieldName(g)) <=> g = f

\* An execute call of p has ended (raised or returned).
Ended(p) == pc[p] = "idle" /\ outcome[p].kind # "none"

\* An execute call of p has started (and may have ended).
Started(p) == call[p].job_id # None

ConfigLoads ==
    /\ config_file.readable
    /\ config_file.docker_executable # None
    /\ config_file.download_dir # None
    /\ config_file.download_url # None

\* {base}/out/{process_id}/job_{job_id}, base with its trailing slashes stripped
ExpectedDir(base, job_id) ==
    StripSlashes(base) \o <<"/","o","u","t","/">> \o process_id
        \o <<"/","j","o","b","_">> \o job_id

ExpectedCsv(base, job_id) ==
    ExpectedDir(base, job_id)
        \o <<"/","w","e","i","g","h","t","_","t","a","b","l","e","-">> \o job_id
        \o <<".","c","s","v">>

ExpectedRds(base, job_id) ==
    ExpectedDir(base, job_id)
        \o <<"/","w","e","i","g","h","t","_","t","a","b","l","e","-">> \o job_id
        \o <<".","r","d","s">>

ProcessorExecuteError(p) ==
    Ended(p) /\ outcome[p].kind = "raised" /\ outcome[p].exc = "ProcessorExecuteError"

\* The execute call of p failed its input validation.
ValidationFailed(p) == ProcessorExecuteError(p) /\ invoked[p] = <<>>

-----------------------------------------------------------------------------
(* C1: a request that lacks a required field *)

\* f is the first field, in the order the code checks them, that data lacks.
FirstMissing(data, f) ==
    /\ IsMissing(data, f)
    /\ \A i, j \in 1..3 : (i < j /\ FieldOrder[j] = f) => ~IsMissing(data, FieldOrder[i])

\* C1 as stated: every execute call whose request lacks exactly one required
\* field ends with a ProcessorExecuteError whose message names exactly that
\* field, and run_docker_container is not called.
C1_AsStated ==
    \A p \in Procs : \A f \in Fields :
        (Ended(p) /\ \A g \in Fields : IsMissing(call[p].data[1], g) <=> g = f)
            => /\ ProcessorExecuteError(p)
               /\ NamesExactly(outcome[p].msg, f)
               /\ invoked[p] = <<>>

\* C1, amended: an execute call whose request lacks a required field never
\* calls run_docker_container; and when the configuration loaded and the
\* output directory was created, it ends with a ProcessorExecuteError whose
\* message names exactly the first lacking field (the only one, when one lacks).
C1_MissingFieldRejected ==
    \A p \in Procs : \A f \in Fields :
        (Started(p) /\ FirstMissing(call[p].data[1], f))
            => /\ invoked[p] = <<>>
               /\ Ended(p)
               /\ outcome[p].kind = "raised"
               /\ outcome[p].exc \notin {"ConfigError", "OSError"}
                    => /\ outcome[p].exc = "ProcessorExecuteError"
                       /\ NamesExactly(outcome[p].msg, f)
                       /\ outcome[p].result = None

\* A call with only the gpkg input lacking was rejected by the validation.
C1_Witness ==
    /\ ValidationFailed("p1")
    /\ \A g \in Fields : IsMissing(call["p1"].data[1], g) <=> g = "inputFile2_gpkg"

-----------------------------------------------------------------------------
(* C2: the container exits non-zero *)

NoMessage == <<"n","o"," ","m","e","s","s","a","g","e">>

\* C2: when run_docker_container returns a non-zero code, execute raises a
\* ProcessorExecuteError and returns nothing; its message contains
\* "no message" when the user message is empty and the user message itself
\* otherwise.
C2_NonZeroExitRaises ==
    \A p \in Procs :
        (ret[p] # None /\ ret[p][1].returncode # 0)
            => /\ ProcessorExecuteError(p)
               /\ outcome[p].result = None
               /\ IF ret[p][1].user_err_msg = <<>>
                  THEN Contains(outcome[p].msg, NoMessage)
                  ELSE Contains(outcome[p].msg, ret[p][1].user_err_msg)

\* Both cases have happened: here the one with an empty user message.
C2_Witness ==
    /\ ret["p1"] # None
    /\ ret["p1"][1].returncode # 0
    /\ ret["p1"][1].user_err_msg = <<>>
    /\ Ended("p1")

-----------------------------------------------------------------------------
(* C3: the container exits with 0 *)

OutputNames == {"weight_table_csv", "weight_table_rds"}

\* C3: when run_docker_container returns 0, execute returns a response whose
\* outputs are exactly weight_table_csv and weight_table_rds, with the hrefs
\* {download_url}/out/{process_id}/job_{job_id}/weight_table-{job_id}.csv and
\* .rds (download_url without trailing slashes, job_id as read when the call
\* started): the links computed before the container ran.
C3_SuccessResponse ==
    \A p \in Procs :
        (ret[p] # None /\ ret[p][1].returncode = 0)
            => /\ Ended(p)
               /\ outcome[p].kind = "returned"
               /\ LET outputs == outcome[p].result[1].response.outputs
                      url == config_file.download_url[1]
                      id == call[p].job_id[1]
                  IN  /\ DOMAIN outcome[p].result[1].response = {"outputs"}
                      /\ DOMAIN outputs = OutputNames
                      /\ outputs.weight_table_csv.href = ExpectedCsv(url, id)
                      /\ outputs.weight_table_rds.href = ExpectedRds(url, id)
                      /\ outputs.weight_table_csv.href = call[p].downloadlink1[1]
                      /\ outputs.weight_table_rds.href = call[p].downloadlink2[1]

\* A call under the configuration with trailing slashes returned a response,
\* after the job id of the instance was changed while the container ran.
C3_Witness ==
    /\ outcome["p1"].kind = "returned"
    /\ config_file = SlashedConfig
    /\ call["p1"].job_id # Str(my_job_id["p1"])

-----------------------------------------------------------------------------
(* C4: the arguments of the container *)

\* C4: every call of run_docker_container gets exactly the five arguments
\* tif, gpkg, dbf, csv path, rds path in this order, the inputs as the request
\* gave them, and both paths lie in the output directory passed in that call.
C4_ScriptArgs ==
    \A p \in Procs : \A i \in 1..Len(invoked[p]) :
        LET c == invoked[p][i]
            data == call[p].data[1]
            id == call[p].job_id[1]
            dir == config_file.download_dir[1]
        IN  /\ Len(c.script_args) = 5
            /\ c.script_args[1] = Str(data["inputFile1_tif"].v)
            /\ c.script_args[2] = Str(data["inputFile2_gpkg"].v)
            /\ c.script_args[3] = Str(data["inputFile3_dbf"].v)
            /\ \A f \in Fields : ~IsMissing(data, f)
            /\ c.script_args[4] = Str(ExpectedCsv(dir, id))
            /\ c.script_args[5] = Str(ExpectedRds(dir, id))
            /\ c.output_dir = ExpectedDir(dir, id)
            /\ StartsWith(c.script_args[4][1], c.output_dir \o Slash)
            /\ StartsWith(c.script_args[5][1], c.output_dir \o Slash)

\* The container was started for job 42 of the concrete scenario.
C4_Witness ==
    /\ pc["p1"] = "running"
    /\ Len(invoked["p1"]) = 1
    /\ invoked["p1"][1].output_dir =
         <<"/","d","a","t","a","/","o","u","t","/">> \o process_id
            \o <<"/","j","o","b","_","4","2">>

-----------------------------------------------------------------------------
(* C5: no partial success *)

BothLinksReturned(p) ==
    /\ outcome[p].kind = "returned"
    /\ outcome[p].result[1].response.outputs.weight_table_csv.href
         = call[p].downloadlink1[1]
    /\ outcome[p].result[1].response.outputs.weight_table_rds.href
         = call[p].downloadlink2[1]

-----------------------------------------------------------------------------
(* C6: concurrent jobs with distinct job ids *)

\* The output directory and the two output files of the call of p.
JobDir(p) == call[p].output_dir[1]

JobFiles(p) == {call[p].downloadfilepath1[1], call[p].downloadfilepath2[1]}

\* p and q are two instances whose containers run at the same time, for
\* different job ids.
Concurrent(p, q) ==
    /\ p # q
    /\ pc[p] = "running"
    /\ pc[q] = "running"
    /\ call[p].job_id # call[q].job_id

\* C6 as stated: no output directory or output file path of one running job
\* equals an output directory or output file path of another running job
\* with a different job id.
C6_AsStated ==
    \A p, q \in Procs :
        Concurrent(p, q) =>
            ({JobDir(p)} \cup JobFiles(p)) \cap ({JobDir(q)} \cup JobFiles(q)) = {}

\* C6, amended: two running jobs with different job ids have different output
\* directories and no output file in common; and when neither job id holds a
\* '/', no output directory of one is an output file of the other either.
C6_DistinctJobsDistinctPaths ==
    \A p, q \in Procs :
        Concurrent(p, q) =>
            /\ JobDir(p) # JobDir(q)
            /\ JobFiles(p) \cap JobFiles(q) = {}
            /\ (~Contains(call[p].job_id[1], Slash) /\ ~Contains(call[q].job_id[1], Slash))
                  => JobDir(p) \notin JobFiles(q)

\* Two containers run at once for the plain job ids 42 and 7.
C6_Witness ==
    /\ pc["p1"] = "running"
    /\ pc["p2"] = "running"
    /\ call["p1"].job_id = Str(<<"4","2">>)
    /\ call["p2"].job_id = Str(<<"7">>)

-----------------------------------------------------------------------------
(* C7: the job id of an instance *)

\* C7 as stated: the job id of an instance changes at most once, that is,
\* only away from the value 'nothing-yet' it was constructed with.
C7_AsStated ==
    [][\A p \in Procs : my_job_id'[p] # my_job_id[p] => my_job_id[p] = Sentinel]_vars

\* C7, amended: set_job_id overwrites the job id every time it is called;
\* execute never changes it, and builds its output directory from the value
\* the instance holds when the call starts (the last one assigned, or
\* 'nothing-yet').
C7_ExecuteUsesCurrentJobId ==
    [][\A p \in Procs :
          nexec' # nexec \/ pc'[p] # pc[p] =>
              /\ my_job_id'[p] = my_job_id[p]
              /\ (call'[p] # call[p] /\ call'[p].output_dir # None) =>
                    /\ call'[p].job_id = Str(my_job_id[p])
                    /\ call'[p].output_dir[1] =
                         ExpectedDir(config_file.download_dir[1], my_job_id[p])]_vars

\* execute built its paths from job id 7 and the job id was assigned again
\* afterwards: it has changed twice since construction.
C7_Witness ==
    /\ Ended("p1")
    /\ call["p1"].output_dir # None
    /\ call["p1"].job_id = Str(<<"7">>)
    /\ my_job_id["p1"] = <<"4","2">>

-----------------------------------------------------------------------------
(* C8: state kept on the instance *)

\* C8 as stated: the paths of an execute call are those of the job the call
\* is made for, whatever set_job_id and execute calls other jobs made on the
\* instance before.
C8_AsStated ==
    \A p \in Procs :
        (Started(p) /\ served[p] # None) => call[p].job_id = served[p]

\* C8, amended: the instance keeps state across calls: the job id, until the
\* next set_job_id, and the three configuration attributes, which every
\* execute call that loads the configuration overwrites.  An execute call
\* takes the job id from the instance: its file paths and links are those of
\* the job id assigned last, whichever job the call is made for.
C8_PathsFollowInstanceJobId ==
    [][\A p \in Procs :
          (nexec' # nexec /\ (call'[p] # call[p] \/ pc'[p] # pc[p])) =>
              /\ download_dir'[p] = Str(StripSlashes(config_file.download_dir[1]))
              /\ download_url'[p] = Str(StripSlashes(config_file.download_url[1]))
              /\ docker_executable'[p] = config_file.docker_executable
              /\ call'[p].downloadfilepath1 # None =>
                    /\ call'[p].downloadfilepath1[1]
                         = ExpectedCsv(config_file.download_dir[1], my_job_id[p])
                    /\ call'[p].downloadfilepath2[1]
                         = ExpectedRds(config_file.download_dir[1], my_job_id[p])
                    /\ call'[p].downloadlink1[1]
                         = ExpectedCsv(config_file.download_url[1], my_job_id[p])
                    /\ call'[p].downloadlink2[1]
                         = ExpectedRds(config_file.download_url[1], my_job_id[p])]_vars

\* The execute call made for job 42 ran with the paths of job 7, which had
\* assigned its id in between.
C8_Witness ==
    /\ served["p1"] = Str(<<"4","2">>)
    /\ call["p1"].job_id = Str(<<"7">>)
    /\ call["p1"].downloadfilepath1 # None

-----------------------------------------------------------------------------
(* C9: the steps of an execute call *)

Steps == <<"load_config", "makedirs", "validate", "invoke", "interpret">>

AllPresent(data) == \A f \in Fields : ~IsMissing(data, f)

Linear(p) ==
    /\ Len(trace[p]) <= Len(Steps)
    /\ trace[p] = SubSeq(Steps, 1, Len(trace[p]))
    /\ Len(invoked[p]) <= 1
    /\ Len(invoked[p]) = 1 <=> Len(trace[p]) >= 4
    /\ ~ConfigLoads => (trace[p] = <<"load_config">> /\ dirs = {})

\* C9 as stated: every execute call performs a prefix of the five steps,
\* calls run_docker_container at most once, and exactly once if and only if
\* the configuration loaded and all three inputs are present; when the
\* configuration does not load, no directory is created and nothing is run.
C9_AsStated ==
    \A p \in Procs :
        Started(p) =>
            /\ Linear(p)
            /\ Len(invoked[p]) = 1 <=> (ConfigLoads /\ AllPresent(call[p].data[1]))

\* C9, amended: as stated, except that run_docker_container is called exactly
\* once if and only if the configuration loaded, the output directory could
\* be created and all three inputs are present.
C9_LinearSingleInvocation ==
    \A p \in Procs :
        Started(p) =>
            /\ Linear(p)
            /\ Len(invoked[p]) = 1 <=>
                  /\ ConfigLoads
                  /\ ~(Ended(p) /\ outcome[p].exc = "OSError")
                  /\ AllPresent(call[p].data[1])

\* An execute call went through all five steps, with one container run.
C9_Witness ==
    /\ trace["p1"] = Steps
    /\ Len(invoked["p1"]) = 1
    /\ Ended("p1")

-----------------------------------------------------------------------------
(* C10: the directory a rejected request leaves behind *)

\* C10: after an execute call that failed with a missing-parameter error, the
\* directory {download_dir}/out/{process_id}/job_{job_id} exists although no
\* container was run; with no job id assigned it is the directory of
\* 'nothing-yet'.
C10_RejectedRequestLeavesDirectory ==
    \A p \in Procs :
        ValidationFailed(p) =>
            /\ ExpectedDir(config_file.download_dir[1], call[p].job_id[1]) \in dirs
            /\ ret[p] = None
            /\ produced[p] = {}
            /\ my_job_id[p] = Sentinel =>
                  ExpectedDir(config_file.download_dir[1], Sentinel) \in dirs

\* A request was rejected before any job id was assigned, and the directory
\* /data/out/<process_id>/job_nothing-yet exists.
C10_Witness ==
    /\ ValidationFailed("p1")
    /\ call["p1"].job_id = Str(Sentinel)
    /\ (<<"/","d","a","t","a","/","o","u","t","/">> \o process_id
          \o <<"/","j","o","b","_","n","o","t","h","i","n","g","-","y","e","t">>) \in dirs

====
